---- MODULE Spec2Model ----
(***************************************************************************)
(* A model of the JSON pattern matcher of json_matcher.go.                 *)
(*                                                                         *)
(* Go strings (values, markers, map keys, paths) are sequences of          *)
(* one-character strings, so that HasPrefix, SplitN, slicing and           *)
(* concatenation are computed as the code computes them.                   *)
(*                                                                         *)
(* A decoded JSON value (interface{}) is a record tagged with its          *)
(* reflect.Kind: "Invalid" is the nil interface (JSON null).               *)
(*                                                                         *)
(* Go iterates a map in an unspecified order, so a matcher that ranges     *)
(* over a map yields a SET of possible outcomes, one per order.  An        *)
(* outcome is either a returned pair (conflicts, err) or a panic.          *)
(***************************************************************************)
EXTENDS Integers, Sequences, FiniteSets, TLC

VARIABLES pc, op, path, x, spec, result, phase1

vars == <<pc, op, path, x, spec, result, phase1>>

(***************************************************************************)
(* Strings                                                                 *)
(***************************************************************************)
HasPrefix(s, prefix) ==
    /\ Len(s) >= Len(prefix)
    /\ SubSeq(s, 1, Len(prefix)) = prefix

\* strings.SplitN(s, " ", 2): split at the first space only
SplitN2(s) ==
    IF \E i \in 1..Len(s) : s[i] = " "
    THEN LET i == CHOOSE i \in 1..Len(s) : s[i] = " " /\ \A j \in 1..(i-1) : s[j] # " "
         IN  <<SubSeq(s, 1, i-1), SubSeq(s, i+1, Len(s))>>
    ELSE <<s>>

Digits == <<"0","1","2","3","4","5","6","7","8","9">>

IsDigit(c) == \E d \in 1..10 : Digits[d] = c

DigitVal(c) == (CHOOSE d \in 1..10 : Digits[d] = c) - 1

\* fmt.Sprint of a non-negative int
RECURSIVE Itoa(_)
Itoa(n) == IF n < 10 THEN <<Digits[n+1]>> ELSE Itoa(n \div 10) \o <<Digits[(n % 10) + 1]>>

\* byte order of the characters the model's map keys are made of
ByteOrder == <<"#","0","1","2","3","4","5","6","7","8","9","a","b","c","d","e","f","k">>

Rank(c) == IF \E i \in 1..Len(ByteOrder) : ByteOrder[i] = c
           THEN CHOOSE i \in 1..Len(ByteOrder) : ByteOrder[i] = c
           ELSE Len(ByteOrder) + 1

RECURSIVE StrLess(_,_)
StrLess(s, t) ==
    IF t = <<>> THEN FALSE
    ELSE IF s = <<>> THEN TRUE
    ELSE IF Head(s) = Head(t) THEN StrLess(Tail(s), Tail(t))
    ELSE Rank(Head(s)) < Rank(Head(t))

(***************************************************************************)
(* Values                                                                  *)
(***************************************************************************)
Null == [k |-> "Invalid"]
Bool(b) == [k |-> "Bool", b |-> b]
Num(n) == [k |-> "Float64", n |-> n]
Str(s) == [k |-> "String", s |-> s]
Arr(a) == [k |-> "Slice", a |-> a]
Obj(o) == [k |-> "Map", o |-> o]

\* a document json.Unmarshal rejects
Malformed == [k |-> "Malformed"]

Nil == <<>>

Errorf(msg) == <<msg>>

\* fmt.Errorf("...: %w", err)
Wrap(msg, err) == <<msg>> \o err

Conflict(p, expected, actual) ==
    [Path |-> p, Expected |-> expected, Actual |-> actual, Error |-> Nil]

Ret(conflicts, err) == [conflicts |-> conflicts, err |-> err, panicked |-> FALSE]

\* an index out of range in reflect.Value.Index unwinds every caller
Panic == [conflicts |-> <<>>, err |-> Nil, panicked |-> TRUE]

\* the orders in which a range over a map with key set S can visit it
MapRange(S) ==
    {order \in [1..Cardinality(S) -> S] :
        \A i, j \in 1..Cardinality(S) : i # j => order[i] # order[j]}

\* json.Unmarshal into interface{}
Unmarshal(j) ==
    IF j.k = "Malformed"
    THEN [v |-> Null, err |-> Errorf("invalid character")]
    ELSE [v |-> j, err |-> Nil]

RECURSIVE Sprint(_)
RECURSIVE SprintElems(_,_)
RECURSIVE SprintEntries(_,_)
\* the keys of S in increasing byte order (fmt prints maps sorted by key)
RECURSIVE SortedKeys(_)
SortedKeys(S) ==
    IF S = {} THEN <<>>
    ELSE LET m == CHOOSE m \in S : \A o \in S : o = m \/ StrLess(m, o)
         IN  <<m>> \o SortedKeys(S \ {m})

SprintElems(a, i) ==
    IF i > Len(a) THEN <<>>
    ELSE (IF i > 1 THEN <<" ">> ELSE <<>>) \o Sprint(a[i]) \o SprintElems(a, i+1)

SprintEntries(o, keys) ==
    IF keys = <<>> THEN <<>>
    ELSE Head(keys) \o <<":">> \o Sprint(o[Head(keys)])
         \o (IF Len(keys) > 1 THEN <<" ">> ELSE <<>>)
         \o SprintEntries(o, Tail(keys))

\* fmt.Sprint of a decoded value
Sprint(v) ==
    CASE v.k = "Invalid" -> <<"<","n","i","l",">">>
      [] v.k = "Bool"    -> IF v.b THEN <<"t","r","u","e">> ELSE <<"f","a","l","s","e">>
      [] v.k = "Float64" -> Itoa(v.n)
      [] v.k = "String"  -> v.s
      [] v.k = "Slice"   -> <<"[">> \o SprintElems(v.a, 1) \o <<"]">>
      [] v.k = "Map"     -> <<"m","a","p","[">> \o SprintEntries(v.o, SortedKeys(DOMAIN v.o)) \o <<"]">>

\* fmt.Sprint of the zero reflect.Value
InvalidReflectValue ==
    <<"<","i","n","v","a","l","i","d"," ","r","e","f","l","e","c","t",".","V","a","l","u","e",">">>

(***************************************************************************)
(* Library predicates used by the markers                                  *)
(***************************************************************************)
HexChars == {"0","1","2","3","4","5","6","7","8","9",
             "a","b","c","d","e","f","A","B","C","D","E","F"}

\* uuidRe.MatchString
uuidRe(s) ==
    /\ Len(s) = 36
    /\ \A i \in 1..36 : IF i \in {9, 14, 19, 24} THEN s[i] = "-" ELSE s[i] \in HexChars

\* uuidV4Re.MatchString
uuidV4Re(s) ==
    /\ uuidRe(s)
    /\ s[15] = "4"
    /\ s[20] \in {"8","9","a","A","b","B"}

Num2(s, i) == 10 * DigitVal(s[i]) + DigitVal(s[i+1])

Num4(s, i) == 100 * Num2(s, i) + Num2(s, i+2)

DaysIn(month, year) ==
    IF month = 2
    THEN (IF year % 4 = 0 /\ (year % 100 # 0 \/ year % 400 = 0) THEN 29 ELSE 28)
    ELSE IF month \in {4, 6, 9, 11} THEN 30 ELSE 31

\* the first ten characters of s read as 2006-01-02
DatePrefix(s) ==
    /\ Len(s) >= 10
    /\ \A i \in {1,2,3,4,6,7,9,10} : IsDigit(s[i])
    /\ s[5] = "-" /\ s[8] = "-"
    /\ Num2(s, 6) \in 1..12
    /\ Num2(s, 9) \in 1..DaysIn(Num2(s, 6), Num4(s, 1))

\* time.Parse("2006-01-02", s) succeeds
ParsesAsDate(s) == Len(s) = 10 /\ DatePrefix(s)

\* s from position i on is a zone: Z or +hh:mm or -hh:mm
ZoneAt(s, i) ==
    \/ Len(s) = i /\ s[i] = "Z"
    \/ /\ Len(s) = i + 5
       /\ s[i] \in {"+", "-"}
       /\ IsDigit(s[i+1]) /\ IsDigit(s[i+2]) /\ s[i+3] = ":"
       /\ IsDigit(s[i+4]) /\ IsDigit(s[i+5])
       /\ Num2(s, i+1) < 24 /\ Num2(s, i+4) < 60

\* time.Parse(time.RFC3339, s) succeeds
ParsesAsRFC3339(s) ==
    /\ Len(s) >= 20
    /\ DatePrefix(s)
    /\ s[11] = "T"
    /\ \A i \in {12,13,15,16,18,19} : IsDigit(s[i])
    /\ s[14] = ":" /\ s[17] = ":"
    /\ Num2(s, 12) < 24 /\ Num2(s, 15) < 60 /\ Num2(s, 18) < 60
    /\ \/ ZoneAt(s, 20)
       \/ /\ s[20] \in {".", ","}
          /\ \E z \in 22..Len(s) :
                /\ \A i \in 21..(z-1) : IsDigit(s[i])
                /\ ZoneAt(s, z)

\* regexp.Compile(expr) succeeds, for expressions made of literal characters
\* and character classes: a class opened by [ must be closed
RegexCompiles(expr) ==
    \A i \in 1..Len(expr) :
        expr[i] = "[" => \E j \in (i+2)..Len(expr) : expr[j] = "]"

\* r.MatchString(s) for an expression of literal characters: unanchored search
RegexMatchString(expr, s) ==
    \E i \in 0..(Len(s) - Len(expr)) : SubSeq(s, i+1, i+Len(expr)) = expr

(***************************************************************************)
(* Markers                                                                 *)
(***************************************************************************)
ignoreMarker == <<"#","i","g","n","o","r","e">>
nullMarker == <<"#","n","u","l","l">>
presentMarker == <<"#","p","r","e","s","e","n","t">>
notnullMarker == <<"#","n","o","t","n","u","l","l">>
notpresentMarker == <<"#","n","o","t","p","r","e","s","e","n","t">>
arrayMarker == <<"#","a","r","r","a","y">>
objectMarker == <<"#","o","b","j","e","c","t">>
boolMarker == <<"#","b","o","o","l">>
booleanMarker == <<"#","b","o","o","l","e","a","n">>
numberMarker == <<"#","n","u","m","b","e","r">>
stringMarker == <<"#","s","t","r","i","n","g">>
dateMarker == <<"#","d","a","t","e">>
datetimeMarker == <<"#","d","a","t","e","t","i","m","e">>
uuidMarker == <<"#","u","u","i","d">>
uuidV4Marker == <<"#","u","u","i","d","-","v","4">>
regexMarker == <<"#","r","e","g","e","x">>
arrayOfMarker == <<"#","a","r","r","a","y","-","o","f">>

getMarker(y) ==
    IF y.k = "String" /\ HasPrefix(y.s, <<"#">>)
    THEN [isMarker |-> TRUE, marker |-> y.s]
    ELSE [isMarker |-> FALSE, marker |-> <<>>]

isMarker(y, marker) == getMarker(y).isMarker /\ marker = getMarker(y).marker

\* a faulty _matchZero: the validity check on x is forgotten
_matchZero_alwaysConflict(p, xx) == <<Conflict(p, Null, xx)>>

_matchZero(p, xx) ==
    IF xx.k = "Invalid" THEN <<>> ELSE <<Conflict(p, Null, xx)>>

_matchPrimitive(p, xx, y) ==
    IF xx # y THEN Ret(<<Conflict(p, y, xx)>>, Nil) ELSE Ret(<<>>, Nil)

\* the switch on markerParts[0], reached with a non-nil x
_matchWithMarker_switch(p, xx, marker) ==
    LET possibleConflict == Conflict(p, Str(marker), xx)
        markerParts == SplitN2(marker)
        name == markerParts[1]
        yes == Ret(<<>>, Nil)
        no == Ret(<<possibleConflict>>, Nil)
    IN  CASE name = ignoreMarker -> yes
          [] name = nullMarker ->
                IF xx.k # "Ptr" THEN no ELSE IF xx.isNil THEN yes ELSE no
          [] name = notnullMarker ->
                IF xx.k # "Ptr" THEN yes ELSE IF ~xx.isNil THEN yes ELSE no
          [] name = presentMarker -> yes
          [] name = notpresentMarker -> no
          [] name = arrayMarker ->
                IF xx.k # "Array" /\ xx.k # "Slice" THEN no ELSE yes
          [] name = objectMarker -> IF xx.k # "Map" THEN no ELSE yes
          [] name \in {boolMarker, booleanMarker} -> IF xx.k # "Bool" THEN no ELSE yes
          [] name = numberMarker ->
                IF xx.k # "Int64" /\ xx.k # "Float64" THEN no ELSE yes
          [] name = stringMarker -> IF xx.k # "String" THEN no ELSE yes
          [] name = dateMarker ->
                IF xx.k = "String" THEN (IF ParsesAsDate(xx.s) THEN yes ELSE no)
                ELSE IF xx.k = "Struct" /\ xx.isTime THEN yes ELSE no
          [] name = datetimeMarker ->
                IF xx.k = "String" THEN (IF ParsesAsRFC3339(xx.s) THEN yes ELSE no)
                ELSE IF xx.k = "Struct" /\ xx.isTime THEN yes ELSE no
          [] name = uuidMarker ->
                IF xx.k # "String" THEN no ELSE IF uuidRe(xx.s) THEN yes ELSE no
          [] name = uuidV4Marker ->
                IF xx.k # "String" THEN no ELSE IF uuidV4Re(xx.s) THEN yes ELSE no
          [] name = regexMarker ->
                IF Len(markerParts) # 2
                THEN Ret(<<possibleConflict>>, Errorf("expected exactly one argument for #regex"))
                ELSE IF ~RegexCompiles(markerParts[2])
                THEN Ret(<<possibleConflict>>,
                         Wrap("invalid regex argument to #regex", Errorf("error parsing regexp")))
                ELSE IF xx.k # "String" THEN no
                ELSE IF RegexMatchString(markerParts[2], xx.s) THEN yes ELSE no
          [] OTHER -> Ret(<<possibleConflict>>, Errorf("unsupported pattern"))

_matchWithMarker(p, xx, marker) ==
    IF xx.k = "Invalid" /\ (marker = ignoreMarker \/ marker = nullMarker \/ marker = presentMarker)
    THEN Ret(<<>>, Nil)
    ELSE IF xx.k = "Invalid"
    THEN Ret(<<Conflict(p, Str(marker), xx)>>, Nil)
    ELSE _matchWithMarker_switch(p, xx, marker)

(***************************************************************************)
(* The dispatcher and the container matchers.  Each yields the set of      *)
(* outcomes the call can have.                                             *)
(***************************************************************************)
RECURSIVE _match(_,_,_)
RECURSIVE _matchMap_calls(_,_,_)
RECURSIVE _matchMapCheckIteratingObject_loop(_,_,_,_,_)
RECURSIVE _matchMapCheckIteratingSpec_loop(_,_,_,_,_)
RECURSIVE _matchSlice_loop(_,_,_,_,_,_)

\* the kind -> matcher table built by init()
matchers ==
    [Bool |-> "_matchPrimitive", String |-> "_matchPrimitive", Int |-> "_matchPrimitive",
     Int64 |-> "_matchPrimitive", Float64 |-> "_matchPrimitive", Map |-> "_matchMap",
     Slice |-> "_matchSlice", Array |-> "_matchSlice"]

\* a faulty first pass: a key the pattern lacks is matched against a nil
\* pattern instead of being skipped
_matchMapCheckIteratingObject_loop_noSkip(p, vX, vY, order, conflicts) ==
    IF order = <<>> THEN {Ret(conflicts, Nil)}
    ELSE LET key == Head(order) IN
         UNION {
            IF item.panicked THEN {Panic}
            ELSE IF item.err # Nil
            THEN {Ret(conflicts \o item.conflicts, Wrap("can't compare map element", item.err))}
            ELSE _matchMapCheckIteratingObject_loop(p, vX, vY, Tail(order),
                                                    conflicts \o item.conflicts)
            : item \in _match(p \o <<"/">> \o key, vX.o[key],
                              IF key \in DOMAIN vY.o THEN vY.o[key] ELSE Null) }

\* a faulty first pass: the presence markers are left to the second pass
_matchMapCheckIteratingObject_loop_skipPresence(p, vX, vY, order, conflicts) ==
    IF order = <<>> THEN {Ret(conflicts, Nil)}
    ELSE LET key == Head(order) IN
         IF \/ key \notin DOMAIN vY.o
            \/ vY.o[key] \in {Str(presentMarker), Str(notpresentMarker)}
         THEN _matchMapCheckIteratingObject_loop(p, vX, vY, Tail(order), conflicts)
         ELSE UNION {
                IF item.panicked THEN {Panic}
                ELSE IF item.err # Nil
                THEN {Ret(conflicts \o item.conflicts, Wrap("can't compare map element", item.err))}
                ELSE _matchMapCheckIteratingObject_loop(p, vX, vY, Tail(order),
                                                        conflicts \o item.conflicts)
                : item \in _match(p \o <<"/">> \o key, vX.o[key], vY.o[key]) }

\* the body of the range over the actual object's keys, from the keys still
\* to visit (order) and the conflicts appended so far
_matchMapCheckIteratingObject_loop(p, vX, vY, order, conflicts) ==
    IF order = <<>> THEN {Ret(conflicts, Nil)}
    ELSE LET key == Head(order) IN
         IF key \notin DOMAIN vY.o
         THEN _matchMapCheckIteratingObject_loop(p, vX, vY, Tail(order), conflicts)
         ELSE UNION {
                IF item.panicked THEN {Panic}
                ELSE IF item.err # Nil
                THEN {Ret(conflicts \o item.conflicts, Wrap("can't compare map element", item.err))}
                ELSE _matchMapCheckIteratingObject_loop(p, vX, vY, Tail(order),
                                                        conflicts \o item.conflicts)
                : item \in _match(p \o <<"/">> \o key, vX.o[key], vY.o[key]) }

_matchMapCheckIteratingObject(p, vX, vY) ==
    UNION { _matchMapCheckIteratingObject_loop(p, vX, vY, order, <<>>)
            : order \in MapRange(DOMAIN vX.o) }

\* the body of the range over the pattern object's keys
_matchMapCheckIteratingSpec_loop(p, vX, vY, order, conflicts) ==
    IF order = <<>> THEN {Ret(conflicts, Nil)}
    ELSE LET key == Head(order)
             ySpecValue == vY.o[key]
             xValueIsValid == key \in DOMAIN vX.o
             possibleConflict ==
                 Conflict(p \o <<"/">> \o key, ySpecValue,
                          Str(IF xValueIsValid THEN Sprint(vX.o[key]) ELSE InvalidReflectValue))
             next(cs) == _matchMapCheckIteratingSpec_loop(p, vX, vY, Tail(order), cs)
         IN
         IF getMarker(ySpecValue).isMarker /\ getMarker(ySpecValue).marker = notpresentMarker
         THEN next(IF xValueIsValid THEN Append(conflicts, possibleConflict) ELSE conflicts)
         ELSE IF getMarker(ySpecValue).isMarker /\ getMarker(ySpecValue).marker = presentMarker
         THEN next(IF ~xValueIsValid THEN Append(conflicts, possibleConflict) ELSE conflicts)
         ELSE IF isMarker(ySpecValue, ignoreMarker)
         THEN next(conflicts)
         ELSE IF ~xValueIsValid
         THEN next(Append(conflicts, possibleConflict))
         ELSE UNION {
                IF item.panicked THEN {Panic}
                ELSE IF item.err # Nil
                THEN {Ret(conflicts \o item.conflicts, Wrap("can't compare map element", item.err))}
                ELSE next(conflicts \o item.conflicts)
                : item \in _match(p \o <<"/">> \o key, vX.o[key], ySpecValue) }

_matchMapCheckIteratingSpec(p, vX, vY) ==
    UNION { _matchMapCheckIteratingSpec_loop(p, vX, vY, order, <<>>)
            : order \in MapRange(DOMAIN vY.o) }

\* a faulty _matchMap: an error of the first pass is returned without the
\* conflicts collected with it
_matchMap_afterObject_dropConflicts(first, p, vX, vY) ==
    IF first.panicked THEN {Panic}
    ELSE IF first.err # Nil THEN {Ret(<<>>, first.err)}
    ELSE IF Len(first.conflicts) > 0 THEN {first}
    ELSE _matchMapCheckIteratingSpec(p, vX, vY)

\* a faulty _matchMap: the second pass runs whatever the first pass found
_matchMap_afterObject_bothPasses(first, p, vX, vY) ==
    IF first.panicked THEN {Panic}
    ELSE IF first.err # Nil THEN {first}
    ELSE {IF second.panicked THEN Panic
          ELSE Ret(first.conflicts \o second.conflicts, second.err)
          : second \in _matchMapCheckIteratingSpec(p, vX, vY)}

\* what _matchMap returns once _matchMapCheckIteratingObject has had outcome first
_matchMap_afterObject(first, p, vX, vY) ==
    IF first.panicked THEN {Panic}
    ELSE IF Len(first.conflicts) > 0 THEN {first}
    ELSE _matchMapCheckIteratingSpec(p, vX, vY)

\* the calls of _matchMap: the outcome of the first pass (none when a kind
\* check fails) and the outcome returned
_matchMap_calls(p, xx, y) ==
    IF xx.k # "Map"
    THEN {[phase1 |-> Ret(<<>>, Nil), ran |-> FALSE,
           result |-> Ret(<<Conflict(p, y, xx)>>, Errorf("wrong kind for left value, expected Map"))]}
    ELSE IF y.k # "Map"
    THEN {[phase1 |-> Ret(<<>>, Nil), ran |-> FALSE,
           result |-> Ret(<<Conflict(p, y, xx)>>, Errorf("wrong kind for pattern value, expected Map"))]}
    ELSE UNION { {[phase1 |-> first, ran |-> TRUE, result |-> r]
                  : r \in _matchMap_afterObject(first, p, xx, y)}
                 : first \in _matchMapCheckIteratingObject(p, xx, y) }

_matchMap(p, xx, y) == {c.result : c \in _matchMap_calls(p, xx, y)}

\* a faulty element loop: on an error only the failing element's conflicts
\* are returned
_matchSlice_loop_dropEarlier(p, xx, y, isArrayOf, i, conflicts) ==
    IF ~(i < Len(xx.a)) THEN {Ret(conflicts, Nil)}
    ELSE IF ~isArrayOf /\ ~(i < Len(y.a)) THEN {Panic}
    ELSE LET ySpecElem == IF isArrayOf THEN y.a[2] ELSE y.a[i+1] IN
         UNION {
            IF item.panicked THEN {Panic}
            ELSE IF item.err # Nil
            THEN {Ret(item.conflicts, Wrap("can't compare slice element", item.err))}
            ELSE _matchSlice_loop(p, xx, y, isArrayOf, i+1, conflicts \o item.conflicts)
            : item \in _match(p \o <<"[">> \o Itoa(i) \o <<"]">>, xx.a[i+1], ySpecElem) }

\* the element loop from index i on (Go indices, from 0)
_matchSlice_loop(p, xx, y, isArrayOf, i, conflicts) ==
    IF ~(i < Len(xx.a)) THEN {Ret(conflicts, Nil)}
    ELSE IF ~isArrayOf /\ ~(i < Len(y.a)) THEN {Panic}
    ELSE LET ySpecElem == IF isArrayOf THEN y.a[2] ELSE y.a[i+1] IN
         UNION {
            IF item.panicked THEN {Panic}
            ELSE IF item.err # Nil
            THEN {Ret(conflicts \o item.conflicts, Wrap("can't compare slice element", item.err))}
            ELSE _matchSlice_loop(p, xx, y, isArrayOf, i+1, conflicts \o item.conflicts)
            : item \in _match(p \o <<"[">> \o Itoa(i) \o <<"]">>, xx.a[i+1], ySpecElem) }

_matchSlice(p, xx, y) ==
    IF xx.k # "Slice"
    THEN {Ret(<<Conflict(p, y, xx)>>, Errorf("wrong kind for left value, expected Slice"))}
    ELSE IF y.k # "Slice"
    THEN {Ret(<<Conflict(p, y, xx)>>, Errorf("wrong kind for pattern value, expected Slice"))}
    ELSE LET isArrayOf ==
                 /\ Len(y.a) = 2
                 /\ getMarker(y.a[1]).isMarker
                 /\ getMarker(y.a[1]).marker = arrayOfMarker
         IN  IF Len(y.a) # 2 /\ Len(xx.a) # Len(y.a)
             THEN {Ret(<<Conflict(p, y, xx)>>, Nil)}
             ELSE _matchSlice_loop(p, xx, y, isArrayOf, 0, <<>>)

_match(p, xx, y) ==
    IF y.k = "Invalid" THEN {Ret(_matchZero(p, xx), Nil)}
    ELSE IF y.k = "String" /\ getMarker(y).isMarker
    THEN {_matchWithMarker(p, xx, getMarker(y).marker)}
    ELSE IF xx.k = "Invalid" THEN {Ret(<<Conflict(p, y, xx)>>, Nil)}
    ELSE IF xx.k # y.k THEN {Ret(<<Conflict(p, y, xx)>>, Nil)}
    ELSE IF y.k \in DOMAIN matchers
    THEN CASE matchers[y.k] = "_matchPrimitive" -> {_matchPrimitive(p, xx, y)}
           [] matchers[y.k] = "_matchMap" -> _matchMap(p, xx, y)
           [] matchers[y.k] = "_matchSlice" -> _matchSlice(p, xx, y)
    ELSE {Ret(<<Conflict(p, y, xx)>>, Errorf("kind is not supported"))}

\* the path rewrite of JSONMatches: a leading // loses one slash
StripPath(c) ==
    IF HasPrefix(c.Path, <<"/","/">>) THEN [c EXCEPT !.Path = Tail(c.Path)] ELSE c

RECURSIVE StripPaths(_)
StripPaths(conflicts) ==
    IF conflicts = <<>> THEN <<>>
    ELSE <<StripPath(Head(conflicts))>> \o StripPaths(Tail(conflicts))

JSONMatches(j, jPatternSpecifier) ==
    IF Unmarshal(j).err # Nil
    THEN {Ret(<<[Path |-> <<"/">>, Expected |-> Null, Actual |-> Null, Error |-> Unmarshal(j).err]>>,
              Wrap("can't unmarshal left argument", Unmarshal(j).err))}
    ELSE IF Unmarshal(jPatternSpecifier).err # Nil
    THEN {Ret(<<[Path |-> <<"/">>, Expected |-> Null, Actual |-> Null,
                 Error |-> Unmarshal(jPatternSpecifier).err]>>,
              Wrap("can't unmarshal pattern argument", Unmarshal(jPatternSpecifier).err))}
    ELSE { IF r.panicked THEN r ELSE Ret(StripPaths(r.conflicts), r.err)
           : r \in _match(<<"/">>, Unmarshal(j).v, Unmarshal(jPatternSpecifier).v) }

(***************************************************************************)
(* Inputs                                                                  *)
(***************************************************************************)
MaxLen == 3

Keys == {<<"a">>, <<"b">>}

Paths == {<<"/">>, <<"/","[","0","]">>}

regexNoArg == regexMarker
regexBad == <<"#","r","e","g","e","x"," ","[">>
regexA == <<"#","r","e","g","e","x"," ","a">>
unsupportedMarker == <<"#","b","o","g","u","s">>

ArraysOver(E) == UNION {{Arr(a) : a \in [1..n -> E]} : n \in 0..MaxLen}

ObjectsOver(E) == UNION {{Obj(o) : o \in [K -> E]} : K \in SUBSET Keys}

\* actual values
AAtoms == {Null, Bool(TRUE), Num(1), Str(<<"a">>)}

ANested == {Arr(<<Num(1)>>), Arr(<<Num(1), Num(1), Num(1)>>),
            Obj(<<"a">> :> Num(1)), Obj(<<"a">> :> Num(1) @@ <<"b">> :> Num(1))}

AArrays == ArraysOver(AAtoms) \cup {Arr(<<v>>) : v \in ANested}

AObjects == ObjectsOver(AAtoms \cup ANested)

AValues == AAtoms \cup AArrays \cup AObjects

\* patterns
PMarkers == {Str(m) : m \in {ignoreMarker, nullMarker, notnullMarker, presentMarker,
                             notpresentMarker, stringMarker, regexNoArg, regexBad, regexA,
                             unsupportedMarker}}

PAtoms == {Null, Bool(TRUE), Num(1), Num(2), Str(<<"a">>)} \cup PMarkers

PNested == {Arr(<<Num(1)>>), Arr(<<Num(1), Num(2)>>),
            Obj(<<"a">> :> Num(1)), Obj(<<"a">> :> Num(2) @@ <<"b">> :> Str(unsupportedMarker))}

PElems == {Num(1), Num(2), Str(arrayOfMarker), Str(unsupportedMarker)}

PArrays == ArraysOver(PElems) \cup {Arr(<<v>>) : v \in PNested}

PObjects == ObjectsOver(PAtoms \cup PNested)

PValues == PAtoms \cup PArrays \cup PObjects

\* the calls made: the function, the path it is given, the two values
Call(f, p, a, y) == op = f /\ path = p /\ x = a /\ spec = y

Calls ==
    \/ \E a \in AValues \cup {Malformed}, y \in PAtoms \cup {Malformed} :
          Call("JSONMatches", <<"/">>, a, y)
    \/ \E a \in AArrays \cup AAtoms, y \in PArrays : Call("JSONMatches", <<"/">>, a, y)
    \/ \E a \in AObjects \cup AAtoms, y \in PObjects : Call("JSONMatches", <<"/">>, a, y)
    \/ \E p \in Paths, a \in AValues, y \in PAtoms : Call("_match", p, a, y)
    \/ \E a \in AArrays, y \in PArrays : Call("_match", <<"/","[","0","]">>, a, y)
    \/ \E a \in AObjects, y \in PObjects : Call("_match", <<"/","[","0","]">>, a, y)
    \/ \E p \in Paths, a \in AValues, y \in PMarkers : Call("_matchWithMarker", p, a, y)
    \/ \E p \in Paths, a \in AArrays, y \in PArrays : Call("_matchSlice", p, a, y)
    \/ \E a \in AAtoms, y \in PAtoms : Call("_matchSlice", <<"/">>, a, y)
    \/ \E p \in Paths, a \in AObjects, y \in PObjects : Call("_matchMap", p, a, y)
    \/ \E a \in AAtoms, y \in PAtoms : Call("_matchMap", <<"/">>, a, y)

NoOutcome == Ret(<<>>, Nil)

NoPhase1 == [ran |-> FALSE, out |-> NoOutcome]

(***************************************************************************)
(* The state machine: a call is drawn, then made.                          *)
(***************************************************************************)
Init ==
    /\ pc = "ready"
    /\ Calls
    /\ result = NoOutcome
    /\ phase1 = NoPhase1

Return(r, first) ==
    /\ result' = r
    /\ phase1' = first
    /\ pc' = "done"
    /\ UNCHANGED <<op, path, x, spec>>

Call_JSONMatches ==
    /\ pc = "ready" /\ op = "JSONMatches"
    /\ \E r \in JSONMatches(x, spec) : Return(r, NoPhase1)

Call_match ==
    /\ pc = "ready" /\ op = "_match"
    /\ \E r \in _match(path, x, spec) : Return(r, NoPhase1)

Call_matchWithMarker ==
    /\ pc = "ready" /\ op = "_matchWithMarker"
    /\ Return(_matchWithMarker(path, x, spec.s), NoPhase1)

Call_matchSlice ==
    /\ pc = "ready" /\ op = "_matchSlice"
    /\ \E r \in _matchSlice(path, x, spec) : Return(r, NoPhase1)

Call_matchMap ==
    /\ pc = "ready" /\ op = "_matchMap"
    /\ \E c \in _matchMap_calls(path, x, spec) :
          Return(c.result, [ran |-> c.ran, out |-> c.phase1])

Next ==
    \/ Call_JSONMatches
    \/ Call_match
    \/ Call_matchWithMarker
    \/ Call_matchSlice
    \/ Call_matchMap

Spec == Init /\ [][Next]_vars

(***************************************************************************)
(* Vocabulary of the properties                                            *)
(***************************************************************************)
Done == pc = "done"

\* the functions that match a value against a pattern of any kind
Entry == {"JSONMatches", "_match"}

\* the path of the value matched: JSONMatches always starts at the root
RootPath == IF op = "JSONMatches" THEN <<"/">> ELSE path

\* a path as the caller sees it
Reported(p) == IF op = "JSONMatches" /\ HasPrefix(p, <<"/","/">>) THEN Tail(p) ELSE p

KeyPath(key) == Reported(RootPath \o <<"/">> \o key)

IndexPath(i) == Reported(RootPath \o <<"[">> \o Itoa(i) \o <<"]">>)

ConflictPaths(r) == {r.conflicts[i].Path : i \in 1..Len(r.conflicts)}

\* the outcomes the call f(p, a, y) can have
Outcomes(f, p, a, y) ==
    CASE f = "JSONMatches" -> JSONMatches(a, y)
      [] f = "_match" -> _match(p, a, y)
      [] f = "_matchSlice" -> _matchSlice(p, a, y)
      [] f = "_matchMap" -> _matchMap(p, a, y)
      [] f = "_matchWithMarker" -> {_matchWithMarker(p, a, y.s)}

\* what an outcome is, order of the conflicts aside
Observed(r) ==
    [conflicts |-> {r.conflicts[i] : i \in 1..Len(r.conflicts)},
     failed |-> r.err # Nil,
     panicked |-> r.panicked]

WildcardForm(y) ==
    y.k = "Slice" /\ Len(y.a) = 2 /\ y.a[1] = Str(arrayOfMarker)

ArrayCall ==
    /\ Done
    /\ op \in Entry \cup {"_matchSlice"}
    /\ x.k = "Slice" /\ spec.k = "Slice"

ObjectCall ==
    /\ Done
    /\ op \in Entry \cup {"_matchMap"}
    /\ x.k = "Map" /\ spec.k = "Map"

RECURSIVE IsLiteral(_)
IsLiteral(v) ==
    CASE v.k = "String" -> ~HasPrefix(v.s, <<"#">>)
      [] v.k = "Slice" -> \A i \in 1..Len(v.a) : IsLiteral(v.a[i])
      [] v.k = "Map" -> \A key \in DOMAIN v.o : IsLiteral(v.o[key])
      [] OTHER -> v.k \in {"Invalid", "Bool", "Float64"}

(***************************************************************************)
(* C1.  An actual array matched against a pattern array of another length, *)
(* the pattern not being ["#array-of", e], returns exactly one conflict,   *)
(* at the path of the array itself, whatever the pattern's length.         *)
(***************************************************************************)
C1_LengthMismatchIsOneWholeArrayConflict ==
    (ArrayCall /\ ~WildcardForm(spec) /\ Len(x.a) # Len(spec.a))
        => /\ ~result.panicked
           /\ Len(result.conflicts) = 1
           /\ result.conflicts[1].Path = RootPath

(***************************************************************************)
(* C2.  A #regex marker with no argument or with an argument that does not *)
(* compile, evaluated against any actual value (JSON null included),       *)
(* returns a conflict at that path together with a non-nil error.          *)
(***************************************************************************)
C2_BadRegexIsConflictAndError ==
    (/\ Done
     /\ op \in Entry \cup {"_matchWithMarker"}
     /\ x.k # "Malformed"
     /\ spec \in {Str(regexNoArg), Str(regexBad)})
        => /\ result.err # Nil
           /\ RootPath \in ConflictPaths(result)

(***************************************************************************)
(* C3.  Whatever function returns, at the entry point or inside the        *)
(* recursion, a non-nil error comes with at least one conflict.            *)
(***************************************************************************)
C3_ErrorComesWithConflict ==
    (Done /\ ~result.panicked /\ result.err # Nil) => Len(result.conflicts) > 0

C3_Witness ==
    /\ Done /\ op = "JSONMatches"
    /\ x.k = "Map" /\ spec.k = "Map"
    /\ \E key \in DOMAIN spec.o : spec.o[key].k = "Map"
    /\ result.err # Nil
    /\ Len(result.err) = 3

(***************************************************************************)
(* C4.  A key of the actual object that the pattern object does not have   *)
(* changes nothing: with and without it the match has the same possible    *)
(* conflicts and error outcome, and no conflict is reported at that key.   *)
(***************************************************************************)
Without(o, key) == [kk \in (DOMAIN o) \ {key} |-> o[kk]]

With(o, key, v) == [kk \in (DOMAIN o) \cup {key} |-> IF kk = key THEN v ELSE o[kk]]

\* C4: removing or adding a key only the actual object has leaves the outcome unchanged
C4_ActualOnlyKeyIsIgnored ==
    ObjectCall =>
        /\ \A key \in (DOMAIN x.o) \ (DOMAIN spec.o) :
              /\ Observed(result) \in
                    {Observed(r) : r \in Outcomes(op, path, Obj(Without(x.o, key)), spec)}
              /\ KeyPath(key) \notin ConflictPaths(result)
        /\ \A key \in Keys \ ((DOMAIN x.o) \cup (DOMAIN spec.o)) : \A v \in AAtoms :
              Observed(result) \in
                  {Observed(r) : r \in Outcomes(op, path, Obj(With(x.o, key, v)), spec)}

C4_Witness ==
    /\ ObjectCall
    /\ op = "JSONMatches"
    /\ \E key \in (DOMAIN x.o) \ (DOMAIN spec.o) : x.o[key] # Null
    /\ DOMAIN spec.o # {}
    /\ Len(result.conflicts) > 0

(***************************************************************************)
(* C5.  A pattern without marker strings, matched against itself, returns  *)
(* no conflict and a nil error.                                            *)
(***************************************************************************)
C5_LiteralMatchesItself ==
    (/\ Done
     /\ \/ op \in Entry
        \/ op = "_matchSlice" /\ spec.k = "Slice"
        \/ op = "_matchMap" /\ spec.k = "Map"
     /\ x = spec
     /\ IsLiteral(spec))
        => result = Ret(<<>>, Nil)

C5_Witness ==
    /\ Done /\ op = "JSONMatches"
    /\ x = spec /\ IsLiteral(spec)
    /\ spec.k = "Map"
    /\ \E key \in DOMAIN spec.o : spec.o[key].k = "Slice"
    /\ \E key \in DOMAIN spec.o : spec.o[key].k = "Invalid"
    /\ result = Ret(<<>>, Nil)

(***************************************************************************)
(* C6.  The order in which the keys of the objects are visited does not    *)
(* change the outcome: whether an error is returned and which conflicts.   *)
(***************************************************************************)
C6_KeyOrderIsIrrelevant ==
    (Done /\ x.k # "Malformed" /\ spec.k # "Malformed")
        => \A r \in Outcomes(op, path, x, spec) : Observed(r) = Observed(result)

(***************************************************************************)
(* C7.  When the pass over the actual object's keys yields a conflict, the *)
(* object matcher returns exactly that pass's conflicts: the pass over the *)
(* pattern's keys is not run, and no conflict is reported for a pattern    *)
(* key the actual object lacks.                                            *)
(***************************************************************************)
C7_FirstPassConflictsShortCircuit ==
    (/\ Done /\ op = "_matchMap"
     /\ phase1.ran
     /\ ~phase1.out.panicked
     /\ Len(phase1.out.conflicts) > 0)
        => /\ result = phase1.out
           /\ \A key \in (DOMAIN spec.o) \ (DOMAIN x.o) :
                 KeyPath(key) \notin ConflictPaths(result)

C7_Witness ==
    /\ Done /\ op = "_matchMap"
    /\ phase1.ran
    /\ Len(phase1.out.conflicts) > 0
    /\ phase1.out.err = Nil
    /\ \E key \in (DOMAIN spec.o) \ (DOMAIN x.o) :
          spec.o[key] \in {Num(1), Str(presentMarker)}

(***************************************************************************)
(* C8.  When the pattern object maps a key to "#notpresent" and the actual *)
(* object has that key, the returned conflict list is not empty, and when  *)
(* no error is returned it holds a conflict at the path of that key.       *)
(***************************************************************************)
C8_NotPresentKeyPresentIsConflict ==
    (ObjectCall /\ ~result.panicked)
        => \A key \in (DOMAIN x.o) \cap (DOMAIN spec.o) :
              spec.o[key] = Str(notpresentMarker)
                  => /\ Len(result.conflicts) > 0
                     /\ result.err = Nil => KeyPath(key) \in ConflictPaths(result)

C8_Witness ==
    /\ ObjectCall /\ op = "JSONMatches"
    /\ \E key \in (DOMAIN x.o) \cap (DOMAIN spec.o) :
          /\ spec.o[key] = Str(notpresentMarker)
          /\ x.o[key] = Null
    /\ \E key \in (DOMAIN x.o) \cap (DOMAIN spec.o) :
          /\ spec.o[key] = Num(2)
          /\ x.o[key] = Num(1)
    /\ result.err = Nil
    /\ Len(result.conflicts) = 2

(***************************************************************************)
(* C9.  The elements of an array are matched in increasing index order up  *)
(* to the first hard error: when element i is the first to raise one, the  *)
(* array matcher returns a non-nil error with the conflicts of the         *)
(* elements 0..i, in index order, and no conflict of a later element.      *)
(***************************************************************************)
ElemPattern(i) == IF WildcardForm(spec) THEN spec.a[2] ELSE spec.a[i+1]

\* what matching element i alone can return, paths as the caller sees them
ElemOutcomes(i) ==
    {IF r.panicked \/ op # "JSONMatches" THEN r ELSE Ret(StripPaths(r.conflicts), r.err)
     : r \in _match(RootPath \o <<"[">> \o Itoa(i) \o <<"]">>, x.a[i+1], ElemPattern(i))}

CanFail(i) == \E r \in ElemOutcomes(i) : ~r.panicked /\ r.err # Nil

\* the conflict lists of elements i..last, elements before last not failing
RECURSIVE ConflictsUpTo(_,_)
ConflictsUpTo(i, last) ==
    IF i > last THEN {<<>>}
    ELSE {r.conflicts \o rest :
            r \in {e \in ElemOutcomes(i) : ~e.panicked /\ ((e.err # Nil) <=> (i = last))},
            rest \in ConflictsUpTo(i+1, last)}

ElementsMatched ==
    /\ ArrayCall
    /\ WildcardForm(spec) \/ Len(spec.a) = 2 \/ Len(x.a) = Len(spec.a)

FirstFailure(i) ==
    /\ ElementsMatched
    /\ i \in 0..(Len(x.a) - 1)
    /\ WildcardForm(spec) \/ i < Len(spec.a)
    /\ CanFail(i)
    /\ \A j \in 0..(i-1) : ~CanFail(j)
    /\ \A j \in 0..i : \A r \in ElemOutcomes(j) : ~r.panicked

\* C9: the first failing element ends the match, earlier conflicts kept, later ones absent
C9_ArrayStopsAtFirstError ==
    \A i \in 0..MaxLen :
        FirstFailure(i)
            => /\ ~result.panicked
               /\ result.err # Nil
               /\ result.conflicts \in ConflictsUpTo(0, i)
               /\ \A j \in (i+1)..(Len(x.a) - 1) : \A p \in ConflictPaths(result) :
                     ~HasPrefix(p, IndexPath(j))

C9_Witness ==
    /\ FirstFailure(1)
    /\ op = "JSONMatches"
    /\ ~WildcardForm(spec)
    /\ Len(x.a) = 3
    /\ Len(result.conflicts) = 2

(***************************************************************************)
(* C10.  Matching an actual array against a pattern array always returns:  *)
(* the element loop never reads the pattern array past its end.            *)
(***************************************************************************)
C10_ArrayMatchAlwaysReturns ==
    ArrayCall => ~result.panicked

====
